---- MODULE Spec2Model ----
(***************************************************************************)
(* Model of stccam: the stereo calibration pipeline                        *)
(* (stccam/calibration.py) and the stereo capture functions                *)
(* (stccam/capture.py).  One call of one function is modelled per          *)
(* behaviour; fn names the function, pc its position.                      *)
(***************************************************************************)
EXTENDS Integers, Sequences, FiniteSets, TLC

\* ---------------------------------------------------------------- bounds
MaxFiles == 3       \* PNG files per input directory
MaxLimit == 3       \* largest image_limit tried
MaxFrames == 2      \* preview frames fetched before the user ends the loop
MaxCaptures == 12   \* captures saved per directory when only pairing is studied
MaxBoard == 4       \* largest chessboard side when only object points are studied
MaxSquare == 3      \* largest square_size (in whole units) tried there

VARIABLES
    fn,              \* the function that was called
    pc,              \* position in that function
    error,           \* "none" or the name of the exception that escaped
    exit_status,     \* -1 while running, else the status given to sys.exit
    dirs,            \* directories that exist (paths as tuples of components)
    files,           \* image files written by cv2.imwrite
    makedirs_calls,  \* paths handed to os.makedirs, in call order
    retval,          \* the value returned, <<>> before the return
    \* ---- stereo_calibration
    stereo_left,     \* names of the PNG files in <file_path>/stereo_left
    stereo_right,    \* names of the PNG files in <file_path>/stereo_right
    chessboard_size, square_size, image_limit, save_rendered,
    left_images, right_images,
    idx,             \* number of pairs the detection loop has finished
    objpoints, imgpoints_left, imgpoints_right,
    grayL,           \* shape (height, width) of the last grayL, Unbound before
    processed,       \* per finished iteration: the files read and what
                     \* findChessboardCorners reported for them
    img_size,
    calls,           \* solver invocations, in call order
    archive,         \* np.savez calls on stereo_calib.npz, in call order
    \* ---- capture functions
    devices,         \* serial numbers of the devices the harvester lists
    cam_serial,      \* the dict, as its items in insertion order
    save_path,
    ias,             \* the image acquirers created, in creation order
    started,         \* number of leading acquirers configured and started
    h_reset,         \* TRUE once h.reset() ran
    stereo_images,
    num_images,
    frames,          \* preview iterations completed
    keys             \* keys read by cv2.waitKey, in order

calibVars == <<stereo_left, stereo_right, chessboard_size, square_size,
               image_limit, save_rendered, left_images, right_images, idx,
               objpoints, imgpoints_left, imgpoints_right, grayL, processed,
               img_size, calls, archive>>
captureVars == <<devices, cam_serial, save_path, ias, started, h_reset,
                 stereo_images, num_images, frames, keys>>
vars == <<fn, pc, error, exit_status, dirs, files, makedirs_calls, retval,
          calibVars, captureVars>>

\* ------------------------------------------------------- strings as codes
\* File names are sequences of character codes so that sorted() compares
\* them the way Python compares str.
Min(a, b) == IF a < b THEN a ELSE b

RECURSIVE Str(_)
Str(n) == IF n < 10 THEN <<48 + n>> ELSE Str(n \div 10) \o <<48 + (n % 10)>>

PrefixL == <<105, 109, 97, 103, 101, 76, 95>>   \* "imageL_"
PrefixR == <<105, 109, 97, 103, 101, 82, 95>>   \* "imageR_"
DotPng == <<46, 112, 110, 103>>                 \* ".png"

NameL(k) == PrefixL \o Str(k) \o DotPng
NameRMut(k) ==
    PrefixR \o (IF k < 10 THEN <<48>> \o Str(k) ELSE Str(k)) \o DotPng
NameR(k) == PrefixR \o Str(k) \o DotPng

\* Python's str "<": the first differing character decides, else the length.
LexLess(a, b) ==
    \/ \E i \in 1..Min(Len(a), Len(b)) :
          /\ a[i] < b[i]
          /\ \A j \in 1..(i - 1) : a[j] = b[j]
    \/ /\ Len(a) < Len(b)
       /\ \A j \in 1..Len(a) : a[j] = b[j]

RECURSIVE Sorted(_)
Sorted(S) ==
    IF S = {} THEN <<>>
    ELSE LET m == CHOOSE x \in S : \A y \in S : x = y \/ LexLess(x, y)
         IN  <<m>> \o Sorted(S \ {m})

\* s[:n] for n >= 0
SliceMut(s, n) == SubSeq(s, 1, Min(n + 1, Len(s)))
Slice(s, n) == SubSeq(s, 1, Min(n, Len(s)))

\* zip() stops at the shorter list
ZipMut(a, b) == IF Len(a) = Len(b)
                THEN [i \in 1..Len(a) |-> <<a[i], b[i]>>]
                ELSE <<>>
Zip(a, b) == [i \in 1..Min(Len(a), Len(b)) |-> <<a[i], b[i]>>]

\* a local name that no statement has bound yet
Unbound == <<>>

Reverse(t) == [i \in 1..Len(t) |-> t[Len(t) + 1 - i]]

\* ------------------------------------------------------------ file system
Join(p, name) == Append(p, name)

\* os.makedirs(p): p and every missing ancestor
MakedirsResult(d, p) == d \cup {SubSeq(p, 1, k) : k \in 1..Len(p)}

\* cv2.imwrite(dir/name, img): writes only into an existing directory and
\* otherwise returns False without raising
ImwriteResult(f, d, dir, name, img) ==
    IF dir \in d THEN f \cup {[dir |-> dir, name |-> name, img |-> img]}
    ELSE f

\* ------------------------------------------------------ stereo_calibration
RenderedRoot == <<"rendered">>
ParamSavePath == <<".">>
Resolutions == {<<1080, 1920>>, <<720, 1280>>}   \* gray.shape = (height, width)
ChessboardSizes == {<<2, 2>>, <<3, 2>>}
SquareSizes == {3}

\* np.mgrid[0:r, 0:c]: g[d][i][j] is i for d = 1 and j for d = 2 (0-based values)
Mgrid(r, c) ==
    [d \in 1..2 |-> [i \in 1..r |-> [j \in 1..c |->
        IF d = 1 THEN i - 1 ELSE j - 1]]]

\* g.T.reshape(-1, 2): the transpose has shape (c, r, 2) and is read row-major
MgridTReshapeMut(r, c) ==
    [k \in 1..(r * c) |->
        LET i == ((k - 1) \div c) + 1
            j == ((k - 1) % c) + 1
        IN  <<Mgrid(r, c)[1][i][j], Mgrid(r, c)[2][i][j]>>]
MgridTReshape(r, c) ==
    [k \in 1..(r * c) |->
        LET j == ((k - 1) \div r) + 1
            i == ((k - 1) % r) + 1
        IN  <<Mgrid(r, c)[1][i][j], Mgrid(r, c)[2][i][j]>>]

\* objp = zeros((r*c, 3)); objp[:, :2] = mgrid...; objp *= square_size
Objp(cs, s) ==
    [k \in 1..(cs[1] * cs[2]) |->
        <<MgridTReshape(cs[1], cs[2])[k][1] * s,
          MgridTReshape(cs[1], cs[2])[k][2] * s,
          0 * s>>]

\* "if retL and retR"
RetainedMut(retL, retR) == retL \/ retR
Retained(retL, retR) == retL /\ retR

\* the number in f"left_img{idx}.png": idx of enumerate(zip(...))
RenderIndexMut(i, kept) == Len(kept)
RenderIndex(i, kept) == i

\* "if not os.path.exists(save_rendered)"
NeedsMakedirsMut(d, root) == Join(root, "stereo_left") \notin d
NeedsMakedirs(d, root) == root \notin d

\* imgpoints_right.append(cornersR)
AppendRightMut(pts, cornersL, cornersR) == Append(pts, cornersL)
AppendRight(pts, cornersL, cornersR) == Append(pts, cornersR)

\* grayL is rebound by every iteration, retained or not
GrayAfterMut(old, shape, kept) == IF kept THEN shape ELSE old
GrayAfter(old, shape, kept) == shape

\* an exception in a solver leaves the function; nothing catches it
AfterSolverMut(ok, next) == next
AfterSolver(ok, next) == IF ok THEN next ELSE "raised"

Pairs == Zip(left_images, right_images)

InitCalib ==
    /\ fn = "stereo_calibration"
    /\ pc = "glob"
    /\ \E nL \in 0..MaxFiles, nR \in 0..MaxFiles :
          /\ stereo_left = {NameL(k) : k \in 0..(nL - 1)}
          /\ stereo_right = {NameR(k) : k \in 0..(nR - 1)}
    /\ chessboard_size \in ChessboardSizes
    /\ square_size \in SquareSizes
    /\ image_limit \in 0..MaxLimit
    /\ save_rendered \in {"None", "rendered"}
    /\ dirs \in {d \in SUBSET {RenderedRoot,
                                Join(RenderedRoot, "stereo_left"),
                                Join(RenderedRoot, "stereo_right")} :
                    /\ (d # {} => RenderedRoot \in d)
                    /\ (save_rendered = "None" => d = {})}
    /\ left_images = <<>> /\ right_images = <<>>
    /\ idx = 0
    /\ objpoints = <<>> /\ imgpoints_left = <<>> /\ imgpoints_right = <<>>
    /\ grayL = Unbound
    /\ processed = <<>>
    /\ img_size = Unbound
    /\ calls = <<>>
    /\ archive = <<>>
    /\ devices = {} /\ cam_serial = <<>> /\ save_path = ""
    /\ ias = <<>> /\ started = 0 /\ h_reset = FALSE
    /\ stereo_images = <<>> /\ num_images = 0 /\ frames = 0 /\ keys = <<>>

\* lines 98-99: sorted(glob.glob(.../*.png))[:image_limit]
Glob ==
    /\ fn = "stereo_calibration" /\ pc = "glob"
    /\ left_images' = Slice(Sorted(stereo_left), image_limit)
    /\ right_images' = Slice(Sorted(stereo_right), image_limit)
    /\ pc' = "loop"
    /\ UNCHANGED <<fn, error, exit_status, dirs, files, makedirs_calls,
                   stereo_left, stereo_right, chessboard_size, square_size,
                   image_limit, save_rendered, idx, objpoints,
                   imgpoints_left, imgpoints_right, grayL, processed,
                   img_size, calls, archive, retval, captureVars>>

\* lines 102-149: one iteration of the detection loop
DetectPair ==
    /\ fn = "stereo_calibration" /\ pc = "loop"
    /\ idx < Len(Pairs)
    /\ \E shapeL \in Resolutions, retL \in BOOLEAN, retR \in BOOLEAN :
          LET left_img == Pairs[idx + 1][1]
              right_img == Pairs[idx + 1][2]
              cornersL == [src |-> left_img]
              cornersR == [src |-> right_img]
              kept == Retained(retL, retR)
              render == kept /\ save_rendered # "None"
              root == <<save_rendered>>
              left_path == Join(root, "stereo_left")
              right_path == Join(root, "stereo_right")
              mk == render /\ NeedsMakedirs(dirs, root)
              d1 == IF mk
                    THEN MakedirsResult(MakedirsResult(dirs, left_path),
                                        right_path)
                    ELSE dirs
              i == RenderIndex(idx, objpoints)
              f1 == ImwriteResult(files, d1, left_path,
                                  <<"left_img", i>>, left_img)
              f2 == ImwriteResult(f1, d1, right_path,
                                  <<"right_img", i>>, right_img)
          IN  /\ grayL' = GrayAfter(grayL, shapeL, kept)
              /\ processed' = Append(processed,
                                      [left |-> left_img,
                                       right |-> right_img,
                                       shape |-> shapeL,
                                       retL |-> retL, retR |-> retR])
              /\ objpoints' = IF kept
                              THEN Append(objpoints,
                                          Objp(chessboard_size, square_size))
                              ELSE objpoints
              /\ imgpoints_left' = IF kept
                                   THEN Append(imgpoints_left, cornersL)
                                   ELSE imgpoints_left
              /\ imgpoints_right' = IF kept
                                    THEN AppendRight(imgpoints_right,
                                                     cornersL, cornersR)
                                    ELSE imgpoints_right
              /\ dirs' = d1
              /\ makedirs_calls' = IF mk
                                   THEN makedirs_calls \o
                                        <<left_path, right_path>>
                                   ELSE makedirs_calls
              /\ files' = IF render THEN f2 ELSE files
    /\ idx' = idx + 1
    /\ UNCHANGED <<fn, pc, error, exit_status, stereo_left, stereo_right,
                   chessboard_size, square_size, image_limit, save_rendered,
                   left_images, right_images, img_size, calls, archive,
                   retval, captureVars>>

\* line 152: img_size = grayL.shape[::-1]; grayL is unbound when the loop
\* body never ran
ImgSize ==
    /\ fn = "stereo_calibration" /\ pc = "loop"
    /\ idx = Len(Pairs)
    /\ IF grayL = Unbound
       THEN /\ error' = "UnboundLocalError"
            /\ pc' = "raised"
            /\ UNCHANGED img_size
       ELSE /\ img_size' = Reverse(grayL)
            /\ pc' = "calibrateCameraL"
            /\ UNCHANGED error
    /\ UNCHANGED <<fn, exit_status, dirs, files, makedirs_calls,
                   stereo_left, stereo_right, chessboard_size, square_size,
                   image_limit, save_rendered, left_images, right_images,
                   idx, objpoints, imgpoints_left, imgpoints_right, grayL,
                   processed, calls, archive, retval, captureVars>>

\* One call into OpenCV.  The call raises cv2.error on an empty sample list
\* and may raise on a degenerate configuration (ok = FALSE).
\* given: the results of earlier solver calls passed in as arguments
Solver(f, imagePoints, given, next) ==
    /\ \E ok \in BOOLEAN :
          LET good == ok /\ objpoints # <<>>
          IN  /\ calls' = Append(calls, [f |-> f,
                                         objectPoints |-> objpoints,
                                         imagePoints |-> imagePoints,
                                         given |-> given,
                                         imageSize |-> img_size])
              /\ pc' = AfterSolver(good, next)
              /\ error' = IF good THEN error ELSE "cv2.error"
    /\ UNCHANGED <<fn, exit_status, dirs, files, makedirs_calls,
                   stereo_left, stereo_right, chessboard_size, square_size,
                   image_limit, save_rendered, left_images, right_images,
                   idx, objpoints, imgpoints_left, imgpoints_right, grayL,
                   processed, img_size, archive, retval, captureVars>>

\* line 155
CalibrateCameraL ==
    /\ fn = "stereo_calibration" /\ pc = "calibrateCameraL"
    /\ Solver("calibrateCamera", <<imgpoints_left>>, {}, "calibrateCameraR")

\* line 156
CalibrateCameraR ==
    /\ fn = "stereo_calibration" /\ pc = "calibrateCameraR"
    /\ Solver("calibrateCamera", <<imgpoints_right>>, {}, "stereoCalibrate")

\* lines 159-168
StereoCalibrate ==
    /\ fn = "stereo_calibration" /\ pc = "stereoCalibrate"
    /\ Solver("stereoCalibrate", <<imgpoints_left, imgpoints_right>>,
              {"mtxL", "distL", "mtxR", "distR"}, "stereoRectify")

\* line 173
StereoRectify ==
    /\ fn = "stereo_calibration" /\ pc = "stereoRectify"
    /\ Solver("stereoRectify", <<>>,
              {"mtxL", "distL", "mtxR", "distR", "R", "T"}, "savez")

\* lines 175-179: np.savez(...); return retval
ArchiveArrays == {"mtxL", "distL", "mtxR", "distR", "R", "T",
                  "R1", "R2", "P1", "P2", "Q"}

\* "return retval": retval is the first result of cv2.stereoCalibrate
ReturnValueMut == <<"calibrateCamera", "retL">>
ReturnValue == <<"stereoCalibrate", "retval">>

Savez ==
    /\ fn = "stereo_calibration" /\ pc = "savez"
    /\ archive' = Append(archive,
                         [path |-> Join(ParamSavePath, "stereo_calib.npz"),
                          arrays |-> ArchiveArrays])
    /\ retval' = ReturnValue
    /\ pc' = "done"
    /\ UNCHANGED <<fn, error, exit_status, dirs, files, makedirs_calls,
                   stereo_left, stereo_right, chessboard_size, square_size,
                   image_limit, save_rendered, left_images, right_images,
                   idx, objpoints, imgpoints_left, imgpoints_right, grayL,
                   processed, img_size, calls, captureVars>>

\* ------------------------------------------------------- capture functions
Serials == {"24MB632", "24MB633", "24MB634"}
KeyEsc == 27
KeyS == 115
KeyOther == 113
NoKey == -1
Keys == {KeyEsc, KeyS, KeyOther, NoKey}

\* the dict literal {'left': '24MB632', 'right': '24MB633'} and the same
\* mapping built in the other insertion order
CamSerials ==
    {<<[key |-> "left", serial |-> "24MB632"],
       [key |-> "right", serial |-> "24MB633"]>>,
     <<[key |-> "right", serial |-> "24MB633"],
       [key |-> "left", serial |-> "24MB632"]>>}

\* cam_serial[k]
Lookup(d, k) == d[CHOOSE i \in 1..Len(d) : d[i].key = k].serial

\* cam_serial.values(): the values in insertion order
Values(d) == [i \in 1..Len(d) |-> d[i].serial]

\* names bound at module level in capture.py (its import statements)
ModuleGlobalsMut == {"Harvester", "plt", "np", "cv2", "TimeoutException",
                     "sys", "os", "time", "datetime"}
ModuleGlobals == {"Harvester", "plt", "np", "cv2", "TimeoutException",
                  "sys", "os", "time"}

\* os.path.join of relative components: an empty component adds nothing
OsPathJoin(parts) == SelectSeq(parts, LAMBDA c : c # "")

\* the image converted from the buffer an acquirer fetched
Frame(ia) == [camera |-> ia.serial]

StereoFns == {"capture_stereo", "capture_stereo_calibration",
              "live_stream_stereo"}

InitCapture ==
    /\ fn \in StereoFns
    /\ pc = "update"
    /\ devices \in SUBSET Serials
    /\ cam_serial \in CamSerials
    /\ save_path \in IF fn = "live_stream_stereo" THEN {""} ELSE {"", "out"}
    /\ dirs = {}
    /\ ias = <<>> /\ started = 0 /\ h_reset = FALSE
    /\ stereo_images = <<>> /\ num_images = 0 /\ frames = 0 /\ keys = <<>>
    /\ stereo_left = {} /\ stereo_right = {}
    /\ chessboard_size = <<2, 2>> /\ square_size = 1
    /\ image_limit = 0 /\ save_rendered = "None"
    /\ left_images = <<>> /\ right_images = <<>>
    /\ idx = 0
    /\ objpoints = <<>> /\ imgpoints_left = <<>> /\ imgpoints_right = <<>>
    /\ grayL = Unbound
    /\ processed = <<>>
    /\ img_size = Unbound
    /\ calls = <<>>
    /\ archive = <<>>

\* h.update(); devices = h.device_info_list; "if not len(devices): sys.exit(1)"
Update ==
    /\ fn \in StereoFns /\ pc = "update"
    /\ IF devices = {}
       THEN /\ exit_status' = 1
            /\ pc' = "exited"
       ELSE /\ pc' = "check"
            /\ UNCHANGED exit_status
    /\ UNCHANGED <<fn, error, dirs, files, makedirs_calls, retval,
                   calibVars, captureVars>>

\* try: assert(len(devices) == 2) / except Exception: print(...)
CheckTwoCameras ==
    /\ fn \in StereoFns /\ pc = "check"
    /\ pc' = IF fn = "capture_stereo_calibration" THEN "mkdirs" ELSE "create"
    /\ UNCHANGED <<fn, error, exit_status, dirs, files, makedirs_calls,
                   retval, calibVars, captureVars>>

CalibPath(side) == OsPathJoin(<<save_path, "date", side>>)

\* capture_stereo_calibration, lines 366-376: datetime.datetime.now() and
\* the two os.makedirs(..., exist_ok=True)
MakeDirs ==
    /\ fn = "capture_stereo_calibration" /\ pc = "mkdirs"
    /\ IF "datetime" \notin ModuleGlobals
       THEN /\ error' = "NameError"
            /\ pc' = "raised"
            /\ UNCHANGED <<dirs, makedirs_calls>>
       ELSE /\ dirs' = MakedirsResult(
                           MakedirsResult(dirs, CalibPath("stereo_left")),
                           CalibPath("stereo_right"))
            /\ makedirs_calls' = makedirs_calls \o
                                 <<CalibPath("stereo_left"),
                                   CalibPath("stereo_right")>>
            /\ pc' = "create"
            /\ UNCHANGED error
    /\ UNCHANGED <<fn, exit_status, files, retval, calibVars, captureVars>>

\* ias = [h.create(search_key={'serial_number': v}) for v in cam_serial.values()]
\* h.create raises when no listed device has the serial number
CreateAcquirers ==
    /\ fn \in StereoFns /\ pc = "create"
    /\ LET vs == Values(cam_serial)
           bad == {i \in 1..Len(vs) : vs[i] \notin devices}
           n == IF bad = {} THEN Len(vs)
                ELSE (CHOOSE i \in bad : \A j \in bad : i <= j) - 1
       IN  /\ ias' = [i \in 1..n |-> [serial |-> vs[i], state |-> "created"]]
           /\ IF bad = {}
              THEN pc' = "start" /\ UNCHANGED error
              ELSE pc' = "raised" /\ error' = "ValueError"
    /\ UNCHANGED <<fn, exit_status, dirs, files, makedirs_calls, retval,
                   calibVars, devices, cam_serial, save_path, started,
                   h_reset, stereo_images, num_images, frames, keys>>

\* one pass of "for ia in ias": set Width, Height, PixelFormat; ia.start();
\* after the last pass, "ia_left, ia_right = ias"
StartAcquirer ==
    /\ fn \in StereoFns /\ pc = "start"
    /\ started < Len(ias)
    /\ \E ok \in BOOLEAN :
          IF ok
          THEN /\ ias' = [ias EXCEPT ![started + 1].state = "started"]
               /\ started' = started + 1
               /\ pc' = IF started + 1 < Len(ias) THEN "start"
                        ELSE IF Len(ias) # 2 THEN "raised"
                        ELSE IF fn = "capture_stereo" THEN "fetch"
                        ELSE "preview"
               /\ error' = IF started + 1 = Len(ias) /\ Len(ias) # 2
                           THEN "ValueError" ELSE error
          ELSE /\ error' = "GenericException"
               /\ pc' = "raised"
               /\ UNCHANGED <<ias, started>>
    /\ UNCHANGED <<fn, exit_status, dirs, files, makedirs_calls, retval,
                   calibVars, devices, cam_serial, save_path, h_reset,
                   stereo_images, num_images, frames, keys>>

\* capture_stereo, lines 257-276
FetchStereo ==
    /\ fn = "capture_stereo" /\ pc = "fetch"
    /\ \E ok \in BOOLEAN :
          IF ok
          THEN /\ stereo_images' = <<Frame(ias[1]), Frame(ias[2])>>
               /\ pc' = "cleanup"
               /\ UNCHANGED error
          ELSE /\ error' = "TimeoutException"
               /\ pc' = "raised"
               /\ UNCHANGED stereo_images
    /\ UNCHANGED <<fn, exit_status, dirs, files, makedirs_calls, retval,
                   calibVars, devices, cam_serial, save_path, ias, started,
                   h_reset, num_images, frames, keys>>

Destroyed(as) == [i \in 1..Len(as) |-> [as[i] EXCEPT !.state = "destroyed"]]

\* capture_stereo, lines 278-291: stop and destroy, h.reset(), save, return
CleanupStereo ==
    /\ fn = "capture_stereo" /\ pc = "cleanup"
    /\ ias' = Destroyed(ias)
    /\ h_reset' = TRUE
    /\ LET d1 == IF save_path # ""
                 THEN MakedirsResult(dirs, OsPathJoin(<<save_path>>))
                 ELSE dirs
           f1 == ImwriteResult(files, d1, OsPathJoin(<<save_path>>),
                               "left.png", stereo_images[1])
           f2 == ImwriteResult(f1, d1, OsPathJoin(<<save_path>>),
                               "right.png", stereo_images[2])
       IN  /\ dirs' = d1
           /\ makedirs_calls' = IF save_path # ""
                                THEN Append(makedirs_calls,
                                            OsPathJoin(<<save_path>>))
                                ELSE makedirs_calls
           /\ files' = IF save_path # "" THEN f2 ELSE files
    /\ retval' = stereo_images
    /\ pc' = "done"
    /\ UNCHANGED <<fn, error, exit_status, calibVars, devices, cam_serial,
                   save_path, started, stereo_images, num_images, frames,
                   keys>>

\* one pass of "while True" in capture_stereo_calibration (lines 394-426)
\* and live_stream_stereo (lines 519-554)
PreviewFrame ==
    /\ fn \in {"capture_stereo_calibration", "live_stream_stereo"}
    /\ pc = "preview"
    /\ \E outcome \in {"frame", "KeyboardInterrupt", "TimeoutException"} :
          IF outcome = "frame"
          THEN \E key \in Keys :
                  /\ (frames >= MaxFrames => key = KeyEsc)
                  /\ frames' = frames + 1
                  /\ keys' = Append(keys, key)
                  /\ pc' = IF key = KeyEsc THEN "finally" ELSE "preview"
                  /\ IF key = KeyS /\ fn = "capture_stereo_calibration"
                     THEN /\ files' =
                               ImwriteResult(
                                   ImwriteResult(files, dirs,
                                                 CalibPath("stereo_left"),
                                                 NameL(num_images),
                                                 Frame(ias[1])),
                                   dirs, CalibPath("stereo_right"),
                                   NameR(num_images), Frame(ias[2]))
                          /\ num_images' = num_images + 1
                     ELSE UNCHANGED <<files, num_images>>
                  /\ UNCHANGED error
          ELSE /\ pc' = "finally"
               /\ error' = IF outcome = "KeyboardInterrupt" THEN error
                           ELSE outcome
               /\ UNCHANGED <<files, num_images, frames, keys>>
    /\ UNCHANGED <<fn, exit_status, dirs, makedirs_calls, retval, calibVars,
                   devices, cam_serial, save_path, ias, started, h_reset,
                   stereo_images>>

\* the finally clause: stop and destroy every acquirer, h.reset()
Finally ==
    /\ fn \in {"capture_stereo_calibration", "live_stream_stereo"}
    /\ pc = "finally"
    /\ ias' = Destroyed(ias)
    /\ h_reset' = TRUE
    /\ pc' = IF error = "none" THEN "done" ELSE "raised"
    /\ UNCHANGED <<fn, error, exit_status, dirs, files, makedirs_calls,
                   retval, calibVars, devices, cam_serial, save_path,
                   started, stereo_images, num_images, frames, keys>>

\* ------------------------------------------------- single-camera capture
SingleFns == {"capture_poe_image", "capture_usb_image"}
CaptureFns == SingleFns \cup StereoFns

InitSingle ==
    /\ fn \in SingleFns
    /\ pc = "update"
    /\ devices \in SUBSET Serials
    /\ cam_serial = <<>>
    /\ save_path \in IF fn = "capture_usb_image" THEN {"", "image.png"}
                    ELSE {""}
    /\ dirs = {}
    /\ ias = <<>> /\ started = 0 /\ h_reset = FALSE
    /\ stereo_images = <<>> /\ num_images = 0 /\ frames = 0 /\ keys = <<>>
    /\ stereo_left = {} /\ stereo_right = {}
    /\ chessboard_size = <<2, 2>> /\ square_size = 1
    /\ image_limit = 0 /\ save_rendered = "None"
    /\ left_images = <<>> /\ right_images = <<>>
    /\ idx = 0
    /\ objpoints = <<>> /\ imgpoints_left = <<>> /\ imgpoints_right = <<>>
    /\ grayL = Unbound
    /\ processed = <<>>
    /\ img_size = Unbound
    /\ calls = <<>>
    /\ archive = <<>>

\* h.update(); "if not len(h.device_info_list): sys.exit(1)"
UpdateSingle ==
    /\ fn \in SingleFns /\ pc = "update"
    /\ IF devices = {}
       THEN /\ exit_status' = 1
            /\ pc' = "exited"
       ELSE /\ pc' = "create"
            /\ UNCHANGED exit_status
    /\ UNCHANGED <<fn, error, dirs, files, makedirs_calls, retval,
                   calibVars, captureVars>>

\* ia = h.create(0): the acquirer of whichever device is listed first
CreateSingle ==
    /\ fn \in SingleFns /\ pc = "create"
    /\ \E s \in devices :
          ias' = <<[serial |-> s, state |-> "created"]>>
    /\ pc' = "start"
    /\ UNCHANGED <<fn, error, exit_status, dirs, files, makedirs_calls,
                   retval, calibVars, devices, cam_serial, save_path,
                   started, h_reset, stereo_images, num_images, frames,
                   keys>>

\* set Width, Height, PixelFormat; ia.start()
StartSingle ==
    /\ fn \in SingleFns /\ pc = "start"
    /\ \E ok \in BOOLEAN :
          IF ok
          THEN /\ ias' = [ias EXCEPT ![1].state = "started"]
               /\ started' = 1
               /\ pc' = "fetch"
               /\ UNCHANGED error
          ELSE /\ error' = "GenericException"
               /\ pc' = "raised"
               /\ UNCHANGED <<ias, started>>
    /\ UNCHANGED <<fn, exit_status, dirs, files, makedirs_calls, retval,
                   calibVars, devices, cam_serial, save_path, h_reset,
                   stereo_images, num_images, frames, keys>>

\* "with ia.fetch() as buffer"; capture_poe_image returns the image here,
\* capture_usb_image goes on to close the stream
FetchSingle ==
    /\ fn \in SingleFns /\ pc = "fetch"
    /\ \E ok \in BOOLEAN :
          IF ok
          THEN /\ stereo_images' = <<Frame(ias[1])>>
               /\ retval' = IF fn = "capture_poe_image" THEN Frame(ias[1])
                            ELSE retval
               /\ pc' = IF fn = "capture_poe_image" THEN "done"
                        ELSE "cleanup"
               /\ UNCHANGED error
          ELSE /\ error' = "TimeoutException"
               /\ pc' = "raised"
               /\ UNCHANGED <<stereo_images, retval>>
    /\ UNCHANGED <<fn, exit_status, dirs, files, makedirs_calls,
                   calibVars, devices, cam_serial, save_path, ias, started,
                   h_reset, num_images, frames, keys>>

\* capture_usb_image, lines 154-164: ia.stop(); ia.destroy(); h.reset();
\* cv2.imwrite(save_path, image) into the working directory; return image
CleanupUsb ==
    /\ fn = "capture_usb_image" /\ pc = "cleanup"
    /\ ias' = Destroyed(ias)
    /\ h_reset' = TRUE
    /\ files' = IF save_path # ""
                THEN files \cup {[dir |-> <<>>, name |-> save_path,
                                  img |-> stereo_images[1]]}
                ELSE files
    /\ retval' = stereo_images[1]
    /\ pc' = "done"
    /\ UNCHANGED <<fn, error, exit_status, dirs, makedirs_calls, calibVars,
                   devices, cam_serial, save_path, started, stereo_images,
                   num_images, frames, keys>>

\* -------------------------------------------------------- specification
Init ==
    /\ error = "none"
    /\ exit_status = -1
    /\ files = {}
    /\ makedirs_calls = <<>>
    /\ retval = <<>>
    /\ (InitCalib \/ InitCapture \/ InitSingle)

Next ==
    \/ Glob
    \/ DetectPair
    \/ ImgSize
    \/ CalibrateCameraL
    \/ CalibrateCameraR
    \/ StereoCalibrate
    \/ StereoRectify
    \/ Savez
    \/ Update
    \/ CheckTwoCameras
    \/ MakeDirs
    \/ CreateAcquirers
    \/ StartAcquirer
    \/ FetchStereo
    \/ CleanupStereo
    \/ PreviewFrame
    \/ Finally
    \/ UpdateSingle
    \/ CreateSingle
    \/ StartSingle
    \/ FetchSingle
    \/ CleanupUsb

Spec == Init /\ [][Next]_vars

\* ---------------------------------------------------------------- claims
Calib == fn = "stereo_calibration"
BothFound(e) == e.retL /\ e.retR
LoopEnded == Calib /\ pc \notin {"glob", "loop"}
LeftDir == Join(RenderedRoot, "stereo_left")
RightDir == Join(RenderedRoot, "stereo_right")

\* C1: an iteration of the detection loop adds one entry to each of
\* objpoints, imgpoints_left and imgpoints_right exactly when detection
\* reported found on both images; otherwise the three lists are left as they
\* were, no error is raised and the loop goes on.
C1_RetainIffBothFound ==
    [][(Calib /\ idx' = idx + 1) =>
          IF BothFound(processed'[idx'])
          THEN /\ Len(objpoints') = Len(objpoints) + 1
               /\ Len(imgpoints_left') = Len(imgpoints_left) + 1
               /\ Len(imgpoints_right') = Len(imgpoints_right) + 1
          ELSE /\ objpoints' = objpoints
               /\ imgpoints_left' = imgpoints_left
               /\ imgpoints_right' = imgpoints_right
               /\ error' = "none"
               /\ pc' = "loop"]_vars

\* a pair with a one-sided detection was skipped and a later pair retained
C1_Witness ==
    /\ Calib
    /\ \E i \in 1..Len(processed), j \in 1..Len(processed) :
          /\ i < j
          /\ processed[i].retL # processed[i].retR
          /\ BothFound(processed[j])
    /\ Len(objpoints) = 1
    /\ error = "none"

\* C2: with no retained sample after the detection loop the function stops
\* with a dedicated insufficient-samples error before any solver is invoked
\* and before any archive is written.
C2_FailFastOnZeroSamples ==
    (LoopEnded /\ objpoints = <<>>) =>
        /\ calls = <<>>
        /\ archive = <<>>
        /\ pc = "raised"
        /\ error = "InsufficientSamplesError"

\* C3: with N matched pairs and image_limit L >= 1 the loop reads the first
\* min(N, L) pairs in lexicographic filename order and no others: the i-th
\* pair read is the file of each directory that has exactly i-1 files of
\* that directory before it.
Rank(S, f) == Cardinality({g \in S : LexLess(g, f)})

C3_FirstMinPairsInSortedOrder ==
    (/\ Calib
     /\ image_limit >= 1
     /\ Cardinality(stereo_left) = Cardinality(stereo_right)) =>
        /\ \A i \in 1..Len(processed) :
              /\ processed[i].left \in stereo_left
              /\ processed[i].right \in stereo_right
              /\ Rank(stereo_left, processed[i].left) = i - 1
              /\ Rank(stereo_right, processed[i].right) = i - 1
        /\ Len(processed) <= Min(Cardinality(stereo_left), image_limit)
        /\ (LoopEnded =>
              Len(processed) = Min(Cardinality(stereo_left), image_limit))

\* three pairs available, limit two: the loop ended after two pairs
C3_Witness ==
    /\ LoopEnded
    /\ Cardinality(stereo_left) = 3
    /\ Cardinality(stereo_right) = 3
    /\ image_limit = 2
    /\ Len(processed) = 2

\* the rendered files of one side, as <<number in the name, image drawn>>
Rendered(dir) == {<<f.name[2], f.img>> : f \in {g \in files : g.dir = dir}}
RenderedIndices(dir) == {e[1] : e \in Rendered(dir)}
PosIn(seq, x) == CHOOSE i \in 1..Len(seq) : seq[i] = x
Rendering == Calib /\ save_rendered # "None"

\* C4 as stated: the number in a rendered file name is the sample's position
\* among the retained samples, so the numbers written are 0..k-1 without
\* gaps (k retained samples, output subfolders present).
C4_IndexIsRetainedPosition ==
    (Rendering /\ LeftDir \in dirs /\ RightDir \in dirs) =>
        /\ Rendered(LeftDir) =
              {<<k - 1, imgpoints_left[k].src>> :
                  k \in 1..Len(imgpoints_left)}
        /\ Rendered(RightDir) =
              {<<k - 1, imgpoints_right[k].src>> :
                  k \in 1..Len(imgpoints_right)}
        /\ RenderedIndices(LeftDir) = 0..(Len(objpoints) - 1)

\* C4 amended: with the output subfolders present, one left_img<i>.png /
\* right_img<i>.png pair is written per retained sample and i is the index
\* of the sample's pair in the list of pairs the loop walks (the enumerate
\* index), so skipped pairs leave gaps in the numbers.
C4_IndexIsPairIndex ==
    (Rendering /\ LeftDir \in dirs /\ RightDir \in dirs) =>
        /\ Rendered(LeftDir) =
              {<<PosIn(left_images, imgpoints_left[k].src) - 1,
                 imgpoints_left[k].src>> : k \in 1..Len(imgpoints_left)}
        /\ Rendered(RightDir) =
              {<<PosIn(right_images, imgpoints_right[k].src) - 1,
                 imgpoints_right[k].src>> : k \in 1..Len(imgpoints_right)}
        /\ Cardinality(Rendered(LeftDir)) = Len(objpoints)
        /\ Cardinality(Rendered(RightDir)) = Len(objpoints)

\* the first pair was skipped, the second retained and rendered as number 1
C4_Witness ==
    /\ Rendering
    /\ Len(processed) >= 2
    /\ ~BothFound(processed[1])
    /\ BothFound(processed[2])
    /\ RenderedIndices(LeftDir) = {1}
    /\ RenderedIndices(RightDir) = {1}

\* C5: stereo_calib.npz is written at most once and only after the loop,
\* both per-camera calibrations, the stereo solve and the rectification
\* succeeded in that order; a run that raised has written no archive.
C5_ArchiveOnlyAfterAllStages ==
    Calib =>
        /\ Len(archive) <= 1
        /\ (archive # <<>> =>
              /\ error = "none"
              /\ idx = Len(Pairs)
              /\ [i \in 1..Len(calls) |-> calls[i].f] =
                    <<"calibrateCamera", "calibrateCamera",
                      "stereoCalibrate", "stereoRectify">>)
        /\ (error # "none" => archive = <<>> /\ pc = "raised")
        /\ (pc = "raised" => archive = <<>>)

\* a run that wrote the archive, after at least one skipped pair
C5_Witness ==
    /\ Calib /\ pc = "done"
    /\ Len(archive) = 1
    /\ Len(objpoints) < Len(processed)

\* C6: after every iteration the three lists have the same length and the
\* k-th left and right corner sets were detected in the two images of one
\* pair; the solvers receive lists of equal length.
C6_ListsAligned ==
    Calib =>
        /\ Len(objpoints) = Len(imgpoints_left)
        /\ Len(objpoints) = Len(imgpoints_right)
        /\ \A k \in 1..Len(imgpoints_left) :
              \E i \in 1..Len(processed) :
                 /\ processed[i].left = imgpoints_left[k].src
                 /\ processed[i].right = imgpoints_right[k].src
                 /\ BothFound(processed[i])
        /\ \A c \in 1..Len(calls) :
              \A p \in 1..Len(calls[c].imagePoints) :
                 Len(calls[c].imagePoints[p]) = Len(calls[c].objectPoints)

\* two samples retained around a skipped pair, and the stereo solve invoked
C6_Witness ==
    /\ Calib
    /\ Len(processed) = 3
    /\ ~BothFound(processed[2])
    /\ Len(imgpoints_left) = 2
    /\ Len(calls) >= 3

\* C7: capture_stereo returns exactly two images, the first from the camera
\* with serial cam_serial['left'] and the second from the camera with serial
\* cam_serial['right'], whatever the insertion order of the keys.
C7_ReturnsLeftThenRight ==
    (fn = "capture_stereo" /\ pc = "done") =>
        /\ Len(retval) = 2
        /\ retval[1].camera = Lookup(cam_serial, "left")
        /\ retval[2].camera = Lookup(cam_serial, "right")

LastRetained ==
    processed[CHOOSE i \in 1..Len(processed) :
                 /\ BothFound(processed[i])
                 /\ \A j \in (i + 1)..Len(processed) :
                       ~BothFound(processed[j])]

\* C9 as stated: every solver receives the resolution of the image of the
\* last retained sample.
C9_SizeOfLastRetained ==
    (Calib /\ objpoints # <<>>) =>
        \A c \in 1..Len(calls) :
           calls[c].imageSize = Reverse(LastRetained.shape)

\* C9 amended: every solver receives (width, height) of the left image of
\* the last pair the loop processed, retained or not.
C9_SizeOfLastProcessed ==
    Calib =>
        \A c \in 1..Len(calls) :
           /\ processed # <<>>
           /\ calls[c].imageSize[1] = processed[Len(processed)].shape[2]
           /\ calls[c].imageSize[2] = processed[Len(processed)].shape[1]

\* all four solvers ran although the last pair was skipped and has another
\* resolution than the last retained one
C9_Witness ==
    /\ Calib
    /\ Len(calls) = 4
    /\ objpoints # <<>>
    /\ ~BothFound(processed[Len(processed)])
    /\ processed[Len(processed)].shape # LastRetained.shape

\* C10: with save_rendered set, os.makedirs runs only in the iteration that
\* retains the first sample while <save_rendered> is missing, once for
\* stereo_left and once for stereo_right; while <save_rendered> exists no
\* directory is created, a subfolder missing then stays missing and no
\* rendered image of that side is persisted.
C10_MakedirsOnlyWhenParentMissing ==
    [][Rendering =>
          /\ (makedirs_calls' # makedirs_calls <=>
                 /\ RenderedRoot \notin dirs
                 /\ Len(objpoints) = 0
                 /\ Len(objpoints') = 1)
          /\ (makedirs_calls' # makedirs_calls =>
                 /\ makedirs_calls = <<>>
                 /\ makedirs_calls' = <<LeftDir, RightDir>>
                 /\ {LeftDir, RightDir} \subseteq dirs')
          /\ (RenderedRoot \in dirs => dirs' = dirs)
          /\ (LeftDir \notin dirs' => Rendered(LeftDir)' = {})
          /\ (RightDir \notin dirs' => Rendered(RightDir)' = {})]_vars

\* <save_rendered> existed without its subfolders: two samples were retained,
\* nothing was created and nothing was persisted
C10_Witness ==
    /\ Rendering
    /\ dirs = {RenderedRoot}
    /\ Len(objpoints) = 2
    /\ makedirs_calls = <<>>
    /\ files = {}

Min3(a, b, c) == Min(a, Min(b, c))

\* C11: with different numbers of PNG files in the two directories the
\* detection loop raises nothing and reads exactly
\* min(nL, nR, image_limit) pairs, the i-th being the i-th file of each
\* directory in sorted order; no file beyond that prefix is read.
C11_MismatchZipsToShorter ==
    (Calib /\ Cardinality(stereo_left) # Cardinality(stereo_right)) =>
        LET n == Min3(Cardinality(stereo_left), Cardinality(stereo_right),
                      image_limit)
        IN  /\ Len(processed) <= n
            /\ \A i \in 1..Len(processed) :
                  /\ processed[i].left \in stereo_left
                  /\ processed[i].right \in stereo_right
                  /\ Rank(stereo_left, processed[i].left) = i - 1
                  /\ Rank(stereo_right, processed[i].right) = i - 1
            /\ (LoopEnded => Len(processed) = n)
            /\ (pc \in {"glob", "loop"} => error = "none")
            /\ (pc = "calibrateCameraL" => error = "none")

\* three left files, two right files, limit three: the loop ended without an
\* error after two pairs
C11_Witness ==
    /\ Calib
    /\ Cardinality(stereo_left) = 3
    /\ Cardinality(stereo_right) = 2
    /\ image_limit = 3
    /\ pc = "calibrateCameraL"
    /\ Len(processed) = 2
    /\ error = "none"

\* ------------------------------------------------ pairing of saved captures
\* The state stereo_calibration starts from before it has bound any list:
\* everything but its arguments and the directories it reads.
FreshCall ==
    /\ error = "none"
    /\ exit_status = -1
    /\ files = {}
    /\ makedirs_calls = <<>>
    /\ retval = <<>>
    /\ left_images = <<>> /\ right_images = <<>>
    /\ idx = 0
    /\ objpoints = <<>> /\ imgpoints_left = <<>> /\ imgpoints_right = <<>>
    /\ grayL = Unbound
    /\ processed = <<>>
    /\ img_size = Unbound
    /\ calls = <<>>
    /\ archive = <<>>
    /\ devices = {} /\ cam_serial = <<>> /\ save_path = ""
    /\ ias = <<>> /\ started = 0 /\ h_reset = FALSE
    /\ stereo_images = <<>> /\ num_images = 0 /\ frames = 0 /\ keys = <<>>

\* stereo_calibration called on directories holding the files that n presses
\* of 's' name: imageL_0.png .. imageL_<n-1>.png and the imageR_ counterparts
InitSort ==
    /\ fn = "stereo_calibration"
    /\ pc = "glob"
    /\ \E n \in 0..MaxCaptures :
          /\ stereo_left = {NameL(k) : k \in 0..(n - 1)}
          /\ stereo_right = {NameR(k) : k \in 0..(n - 1)}
    /\ image_limit \in 0..MaxCaptures
    /\ chessboard_size = <<2, 2>>
    /\ square_size = 3
    /\ save_rendered = "None"
    /\ dirs = {}
    /\ FreshCall

NextSort == Glob

SortSpec == InitSort /\ [][NextSort]_vars

\* the number written between "imageX_" and ".png"
RECURSIVE ParseInt(_)
ParseInt(ds) ==
    IF ds = <<>> THEN 0
    ELSE 10 * ParseInt(SubSeq(ds, 1, Len(ds) - 1)) + (ds[Len(ds)] - 48)

CaptureIndex(name) ==
    ParseInt(SubSeq(name, Len(PrefixL) + 1, Len(name) - Len(DotPng)))

\* C12: for directories holding imageL_<k>.png and imageR_<k>.png,
\* k = 0..n-1, the two sorted and truncated lists carry the same capture
\* index at every position, so each pair the loop walks is one capture.
C12_PairsShareCaptureIndex ==
    (Calib /\ pc # "glob") =>
        /\ Len(Pairs) = Min(Cardinality(stereo_left), image_limit)
        /\ \A i \in 1..Len(Pairs) :
              /\ Pairs[i][1] \in stereo_left
              /\ Pairs[i][2] \in stereo_right
              /\ CaptureIndex(Pairs[i][1]) = CaptureIndex(Pairs[i][2])

\* twelve captures, limit four: the third pair is capture 10, ahead of
\* capture 2, on both sides
C12_Witness ==
    /\ Calib /\ pc = "loop"
    /\ Cardinality(stereo_left) = 12
    /\ image_limit = 4
    /\ Len(Pairs) = 4
    /\ CaptureIndex(Pairs[3][1]) = 10
    /\ CaptureIndex(Pairs[3][2]) = 10

StageOrder == <<"calibrateCamera", "calibrateCamera",
                "stereoCalibrate", "stereoRectify">>

\* C13: the stages run in one fixed order.  No solver is called before the
\* loop has consumed every pair; the calls are calibrateCamera on the left
\* points, calibrateCamera on the right points (each given no earlier solver
\* result), stereoCalibrate, stereoRectify, each at most once; the archive is
\* written after all four; the value returned is stereoCalibrate's RMS.
C13_FixedStageOrder ==
    Calib =>
        /\ Len(calls) <= 4
        /\ \A i \in 1..Len(calls) :
              /\ calls[i].f = StageOrder[i]
              /\ calls[i].objectPoints = objpoints
        /\ (calls # <<>> =>
              /\ pc \notin {"glob", "loop"}
              /\ Len(processed) = Len(Pairs))
        /\ (Len(calls) >= 1 =>
              /\ calls[1].imagePoints = <<imgpoints_left>>
              /\ calls[1].given = {})
        /\ (Len(calls) >= 2 =>
              /\ calls[2].imagePoints = <<imgpoints_right>>
              /\ calls[2].given = {})
        /\ (Len(calls) >= 3 =>
              calls[3].imagePoints = <<imgpoints_left, imgpoints_right>>)
        /\ (archive # <<>> => Len(calls) = 4 /\ pc = "done")
        /\ (pc = "done" =>
              /\ Len(calls) = 4
              /\ Len(archive) = 1
              /\ retval = <<"stereoCalibrate", "retval">>)
        /\ (pc # "done" => retval = <<>>)

\* a complete run over three pairs, two of them retained
C13_Witness ==
    /\ Calib /\ pc = "done"
    /\ Len(processed) = 3
    /\ Len(objpoints) = 2
    /\ Len(calls) = 4
    /\ Len(archive) = 1

\* ------------------------------------------------ object points of a board
\* stereo_calibration called on two pairs, for every board up to
\* MaxBoard x MaxBoard and every square size up to MaxSquare
InitObjp ==
    /\ fn = "stereo_calibration"
    /\ pc = "glob"
    /\ stereo_left = {NameL(0), NameL(1)}
    /\ stereo_right = {NameR(0), NameR(1)}
    /\ image_limit = 2
    /\ chessboard_size \in (2..MaxBoard) \X (2..MaxBoard)
    /\ square_size \in 1..MaxSquare
    /\ save_rendered = "None"
    /\ dirs = {}
    /\ FreshCall

NextObjp ==
    \/ Glob
    \/ DetectPair

ObjpSpec == InitObjp /\ [][NextObjp]_vars

\* C14: for a board (a, b) and square size s every entry of objpoints has
\* a*b points, all with Z = 0, the k-th (from 0) being
\* ((k mod a)*s, (k div a)*s, 0); so all retained samples share one array.
C14_ObjectPointsGrid ==
    Calib =>
        \A e \in 1..Len(objpoints) :
           LET a == chessboard_size[1]
               b == chessboard_size[2]
               s == square_size
               o == objpoints[e]
           IN  /\ Len(o) = a * b
               /\ \A k \in 0..(a * b - 1) :
                     /\ o[k + 1][1] = (k % a) * s
                     /\ o[k + 1][2] = (k \div a) * s
                     /\ o[k + 1][3] = 0
               /\ o = objpoints[1]

\* two samples retained for a 2 x 3 board with square size 2
C14_Witness ==
    /\ Calib
    /\ chessboard_size = <<2, 3>>
    /\ square_size = 2
    /\ Len(objpoints) = 2

Exited == pc \in {"done", "raised", "exited"}

\* C15: when capture_stereo_calibration or live_stream_stereo has exited,
\* by any path, every acquirer that was started has been stopped and
\* destroyed and the harvester has been reset.
C15_StartedAcquirersReleased ==
    (fn \in {"capture_stereo_calibration", "live_stream_stereo"} /\ Exited) =>
        /\ \A i \in 1..Len(ias) : ias[i].state # "started"
        /\ (started > 0 => h_reset)

\* C16: with an empty device list each capture function exits with status 1
\* and has created no acquirer, started no stream, created no directory and
\* written no file; with a device count other than 0 and 2 the stereo
\* functions go on from the two-camera check to the creation of the
\* acquirers.
NoDeviceNoEffect ==
    (fn \in CaptureFns /\ devices = {}) =>
        /\ pc \in {"update", "exited"}
        /\ (pc = "exited" => exit_status = 1)
        /\ ias = <<>>
        /\ started = 0
        /\ dirs = {}
        /\ files = {}
        /\ makedirs_calls = <<>>

C16_ExitOnNoDeviceElseContinue ==
    /\ NoDeviceNoEffect
    /\ [][/\ NoDeviceNoEffect'
          /\ (fn \in CaptureFns /\ devices = {} /\ pc = "update" =>
                 pc' = "exited" /\ exit_status' = 1)
          /\ (/\ fn \in StereoFns
              /\ Cardinality(devices) \notin {0, 2}
              /\ pc \in {"check", "mkdirs"}
              => pc' \in {"mkdirs", "create"})]_vars

====
